---- MODULE Spec2Model ----
(***************************************************************************)
(* The ZKNON coupon engine (src/db.js): the JSON file store (coupons.json, *)
(* events.json) and the express handlers that create coupons, record       *)
(* deposits, pay off-chain and withdraw on-chain.                          *)
(*                                                                         *)
(* Node runs one handler at a time: a synchronous handler is one atomic    *)
(* step.  The withdraw handler is async and gives up control at its two    *)
(* awaits (sendTransaction, confirmTransaction), so it is three steps and  *)
(* any other handler can run between them.                                 *)
(*                                                                         *)
(* Amounts are whole numbers of SOL (JS doubles in the code; rounding of   *)
(* fractional amounts is not modelled).  String inputs are the values      *)
(* after String(x || "").trim(); "" is the empty / missing field.          *)
(* created_at (the wall clock, read by no handler) is left out of the      *)
(* records.                                                                 *)
(***************************************************************************)
EXTENDS Integers, Sequences, FiniteSets, TLC

VARIABLES
    couponsFile,     \* data/coupons.json
    eventsFile,      \* data/events.json
    engineKeypair,   \* the lazily created engine keypair (module global)
    connection,      \* the lazily created RPC connection (module global)
    secretKeyOk,     \* process.env.ENGINE_SECRET_KEY is set and decodes
    calls,           \* the withdraw-onchain requests in flight
    chain,           \* the transfers the external network has been sent
    appended,        \* the events the handlers have appended so far
    faults           \* the times a file of the store has stopped being readable

vars == <<couponsFile, eventsFile, engineKeypair, connection, secretKeyOk,
          calls, chain, appended, faults>>

-----------------------------------------------------------------------------
(* Bounds of the model *)

MaxIds == 2          \* size of the id space generateCouponId draws from
MaxAmount == 2       \* largest amount_sol a request carries
MaxCoupons == 2      \* coupons created in one behaviour
MaxEvents == 3       \* events appended in one behaviour
MaxCalls == 2        \* withdraw-onchain requests in flight at once
MaxTransfers == 2    \* transactions accepted by the network in one behaviour
MaxFaults == 2       \* read faults of the store in one behaviour

-----------------------------------------------------------------------------
(* Values *)

NULL == "null"                 \* JS null
UNDEFINED == "undefined"       \* JS undefined: the field is not in the body
POOL_ADDRESS == "8hGDXBJqpCZvWaDcbvXykRSb1bKbbJ5Ji4c85ubYvkaA"
NoAmount == 0                  \* parseAmountSol's null

Owners == {"W1", "W2"}
Slots == 1..MaxCalls

CouponIdOf(n) == "CPN-" \o ToString(n)
Ids == {CouponIdOf(n) : n \in 1..MaxIds}

-----------------------------------------------------------------------------
(* The file store *)

MissingFile == [kind |-> "missing", items |-> <<>>]

\* A read that answers with what the file last held, whatever its state.
safeReadJSONStale(file, fallback) == [isArray |-> TRUE, items |-> file.items]

\* safeReadJSON: the fallback when the file is missing, cannot be read or
\* parsed, or does not hold an object; the parsed object otherwise.
safeReadJSON(file, fallback) ==
    IF file.kind = "missing" THEN fallback
    ELSE IF file.kind = "unreadable" THEN fallback
    ELSE IF file.kind = "notobject" THEN fallback
    ELSE [isArray |-> file.kind = "ok", items |-> file.items]

\* safeWriteJSON: the file holds the object written.
safeWriteJSON(data) == [kind |-> "ok", items |-> data]

EmptyCollection == [isArray |-> TRUE, items |-> <<>>]

loadCoupons(file) ==
    LET data == safeReadJSON(file, EmptyCollection)
    IN IF ~data.isArray THEN <<>> ELSE data.items

saveCoupons(coupons) == safeWriteJSON(coupons)

loadEvents(file) ==
    LET data == safeReadJSON(file, EmptyCollection)
    IN IF ~data.isArray THEN <<>> ELSE data.items

saveEvents(events) == safeWriteJSON(events)

\* Array.prototype.findIndex / find: the first of the indices whose element
\* passes the test, 0 when there is none.
FindIndex(hits) ==
    IF hits = {} THEN 0
    ELSE CHOOSE i \in hits : \A j \in hits : i <= j

Absent == [found |-> FALSE]
Present(c) == [found |-> TRUE, c |-> c]

getCouponsByOwner(file, ownerWallet) ==
    SelectSeq(loadCoupons(file), LAMBDA c : c.owner_wallet = ownerWallet)

\* A lookup by id alone, whoever asks.
CouponMatchesAnyOwner(c, id, ownerWallet) == c.id = id

CouponMatches(c, id, ownerWallet) ==
    c.id = id /\ (ownerWallet = "" \/ c.owner_wallet = ownerWallet)

getCouponById(file, id, ownerWallet) ==
    LET coupons == loadCoupons(file)
        idx == FindIndex({i \in 1..Len(coupons) :
                             CouponMatches(coupons[i], id, ownerWallet)})
    IN IF idx = 0 THEN Absent ELSE Present(coupons[idx])

\* createCoupon: the file after the call.
createCoupon(file, coupon) ==
    saveCoupons(Append(loadCoupons(file), coupon))

\* The stored coupon records: what a mutator may be handed.
StoredCoupons(file) == {loadCoupons(file)[i] : i \in 1..Len(loadCoupons(file))}

\* updateCoupon: the file after the call and the value returned.  mutator is
\* the callback, as the function from the record it is handed to the record
\* it leaves.
updateCoupon(file, id, ownerWallet, mutator) ==
    LET coupons == loadCoupons(file)
        idx == FindIndex({i \in 1..Len(coupons) :
                             coupons[i].id = id
                                /\ coupons[i].owner_wallet = ownerWallet})
    IN IF idx = 0 THEN [file |-> file, ret |-> Absent]
       ELSE LET c == mutator[coupons[idx]]
            IN [file |-> saveCoupons([coupons EXCEPT ![idx] = c]),
                ret |-> Present(c)]

\* An addEvent that puts the new event first.
addEventFirst(file, event) ==
    saveEvents(<<event>> \o loadEvents(file))

\* addEvent: the file after the call.
addEvent(file, event) ==
    saveEvents(Append(loadEvents(file), event))

getEventsForCoupon(file, couponId, ownerWallet) ==
    SelectSeq(loadEvents(file),
              LAMBDA e : e.coupon_id = couponId /\ e.owner_wallet = ownerWallet)

-----------------------------------------------------------------------------
(* Helpers of the server *)

\* parseAmountSol: null unless the value is a finite number > 0.
parseAmountSol(value) == IF value <= 0 THEN NoAmount ELSE value

\* A field that is dropped instead of passed on.
OrNullAlways(x) == NULL

\* x || null
OrNull(x) == IF x \in {UNDEFINED, NULL, ""} THEN NULL ELSE x

\* Number(x || 0)
NumberOrZero(x) == IF x = 0 THEN 0 ELSE x

\* amount > currentRemaining + 1: a balance check that is off by one.
InsufficientOffByOne(amount, currentRemaining) == amount > currentRemaining + 1

\* No balance check at all.
InsufficientUnchecked(amount, currentRemaining) == FALSE

\* amount >= currentRemaining: a balance check that refuses the whole balance.
InsufficientStrict(amount, currentRemaining) == amount >= currentRemaining

\* amount > currentRemaining
Insufficient(amount, currentRemaining) == amount > currentRemaining

\* new PublicKey(toAddress) throws unless the address decodes.
ValidPublicKey(toAddress) == toAddress # "notbase58" /\ toAddress # ""

Response(status, error, body) ==
    [status |-> status, error |-> error, body |-> body]

NoBody == [none |-> TRUE]

\* An event that loses its signature.
MakeEventNoSig(id, ownerWallet, type, amount, to, note, sig) ==
    [coupon_id |-> id, owner_wallet |-> ownerWallet, type |-> type,
     amount_sol |-> amount, to_address |-> to, note |-> note, tx_sig |-> NULL]

\* An event that names the owner where it should name the counterparty.
MakeEventToOwner(id, ownerWallet, type, amount, to, note, sig) ==
    [coupon_id |-> id, owner_wallet |-> ownerWallet, type |-> type,
     amount_sol |-> amount, to_address |-> ownerWallet, note |-> note,
     tx_sig |-> sig]

MakeEvent(id, ownerWallet, type, amount, to, note, sig) ==
    [coupon_id |-> id, owner_wallet |-> ownerWallet, type |-> type,
     amount_sol |-> amount, to_address |-> to, note |-> note, tx_sig |-> sig]

\* Calls that have passed validation and wait on the network.
InFlight == {p \in Slots : calls[p].pc # "idle"}
Sending == {p \in Slots : calls[p].pc = "sending"}

\* Room left for one more event, counting those the calls in flight may add.
EventRoom == appended + Cardinality(InFlight) < MaxEvents

IdleCall == [pc |-> "idle", id |-> "", owner |-> "", to |-> "",
             amount |-> 0, currentRemaining |-> 0, sig |-> NULL]

-----------------------------------------------------------------------------
Init ==
    /\ couponsFile = MissingFile
    /\ eventsFile = MissingFile
    /\ engineKeypair = NULL
    /\ connection = NULL
    /\ secretKeyOk \in BOOLEAN
    /\ calls = [p \in Slots |-> IdleCall]
    /\ chain = <<>>
    /\ appended = 0
    /\ faults = 0

-----------------------------------------------------------------------------
(* The synchronous handlers.  Each is a function of the request and the    *)
(* files: the files it leaves and the response it sends (res).             *)

Outcome(coupons, events, res) ==
    [couponsFile |-> coupons, eventsFile |-> events, res |-> res]

Rejected(status, error) ==
    Outcome(couponsFile, eventsFile, Response(status, error, NoBody))

\* POST /coupons.  id is the value generateCouponId returns: four random
\* bytes, not compared with the ids already stored.
CreateHandler(wallet, label, amount_sol, expiry, id) ==
    LET ownerWallet == wallet
        couponLabel == label
        amount == parseAmountSol(amount_sol)
        coupon == [id |-> id,
                   label |-> couponLabel,
                   owner_wallet |-> ownerWallet,
                   initial_amount_sol |-> amount,
                   remaining_amount_sol |-> amount,
                   expires_at |-> OrNull(expiry),
                   pool_address |-> POOL_ADDRESS]
    IN IF ownerWallet = "" THEN Rejected(400, "wallet is required")
       ELSE IF couponLabel = "" THEN Rejected(400, "label is required")
       ELSE IF amount = NoAmount
       THEN Rejected(400, "amount_sol must be a positive number")
       ELSE Outcome(createCoupon(couponsFile, coupon),
                    addEvent(eventsFile,
                        MakeEvent(id, ownerWallet, "create", amount,
                                  ownerWallet, NULL, NULL)),
                    Response(201, NULL, [coupon |-> coupon]))

\* A deposit that also rewrites the amount the coupon was created with.
DepositMutatorRaisesInitial(c, amount) ==
    [c EXCEPT !.remaining_amount_sol = NumberOrZero(c.remaining_amount_sol) + amount,
              !.initial_amount_sol = c.initial_amount_sol + amount]

\* The mutator of the deposit handler.
DepositMutator(c, amount) ==
    [c EXCEPT !.remaining_amount_sol = NumberOrZero(c.remaining_amount_sol) + amount]

\* POST /coupons/:id/deposit
DepositHandler(id, wallet, amount_sol, tx_sig) ==
    LET ownerWallet == wallet
        amount == parseAmountSol(amount_sol)
        coupon == getCouponById(couponsFile, id, ownerWallet)
        updated == updateCoupon(couponsFile, id, ownerWallet,
                    [c \in StoredCoupons(couponsFile) |->
                        DepositMutator(c, amount)])
        event == MakeEvent(id, ownerWallet, "deposit", amount, ownerWallet,
                           NULL, OrNull(tx_sig))
    IN IF ownerWallet = "" THEN Rejected(400, "wallet is required")
       ELSE IF amount = NoAmount
       THEN Rejected(400, "amount_sol must be a positive number")
       ELSE IF ~coupon.found
       THEN Rejected(404, "coupon not found for this wallet")
       ELSE Outcome(updated.file, addEvent(eventsFile, event),
                    Response(200, NULL,
                             [coupon |-> updated.ret, event |-> event]))

\* A mutator that forgets the debit.
DebitMutatorNoop(c, currentRemaining, amount) == c

\* The mutator of the pay and withdraw handlers: the balance read before the
\* update, less the amount.
DebitMutator(c, currentRemaining, amount) ==
    [c EXCEPT !.remaining_amount_sol = currentRemaining - amount]

\* POST /pay
PayHandler(wallet, coupon_id, amount_sol, merchant, note) ==
    LET ownerWallet == wallet
        couponId == coupon_id
        merchantWallet == merchant
        amount == parseAmountSol(amount_sol)
        coupon == getCouponById(couponsFile, couponId, ownerWallet)
        currentRemaining == NumberOrZero(coupon.c.remaining_amount_sol)
        updated == updateCoupon(couponsFile, couponId, ownerWallet,
                       [c \in StoredCoupons(couponsFile) |->
                           DebitMutator(c, currentRemaining, amount)])
        event == MakeEvent(couponId, ownerWallet, "pay", amount, merchantWallet,
                           OrNull(note), NULL)
    IN IF ownerWallet = "" THEN Rejected(400, "wallet is required")
       ELSE IF couponId = "" THEN Rejected(400, "coupon_id is required")
       ELSE IF merchantWallet = "" THEN Rejected(400, "merchant is required")
       ELSE IF amount = NoAmount
       THEN Rejected(400, "amount_sol must be a positive number")
       ELSE IF ~coupon.found
       THEN Rejected(404, "coupon not found for this wallet")
       ELSE IF Insufficient(amount, currentRemaining)
       THEN Rejected(400, "insufficient coupon balance")
       ELSE Outcome(updated.file, addEvent(eventsFile, event),
                    Response(200, NULL,
                             [coupon |-> updated.ret, event |-> event]))

\* GET /coupons
ListHandler(wallet) ==
    LET owned == getCouponsByOwner(couponsFile, wallet)
        coupons == [i \in 1..Len(owned) |->
                       [coupon |-> owned[i],
                        events |-> getEventsForCoupon(eventsFile, owned[i].id,
                                                      owned[i].owner_wallet)]]
    IN IF wallet = "" THEN Rejected(400, "wallet query param is required")
       ELSE Outcome(couponsFile, eventsFile,
                    Response(200, NULL,
                             [wallet |-> wallet, pool_address |-> POOL_ADDRESS,
                              coupons |-> coupons]))

\* A history that writes back the events it has selected.
HistoryHandlerWrites(id, wallet) ==
    Outcome(couponsFile,
            saveEvents(getEventsForCoupon(eventsFile, id, wallet)),
            Response(200, NULL,
                     [coupon |-> getCouponById(couponsFile, id, wallet),
                      events |-> getEventsForCoupon(eventsFile, id, wallet)]))

\* GET /coupons/:id/history
HistoryHandler(id, wallet) ==
    LET coupon == getCouponById(couponsFile, id, wallet)
        events == getEventsForCoupon(eventsFile, id, wallet)
    IN IF wallet = "" THEN Rejected(400, "wallet query param is required")
       ELSE IF ~coupon.found
       THEN Rejected(404, "coupon not found for this wallet")
       ELSE Outcome(couponsFile, eventsFile,
                    Response(200, NULL,
                             [coupon |-> coupon.c, events |-> events]))

\* One synchronous request handled: the files become what the handler left.
\* A request that would pass the model's bounds is not sent.
Handle(o) ==
    /\ o.eventsFile # eventsFile => EventRoom
    /\ Len(loadCoupons(o.couponsFile)) <= MaxCoupons
    /\ couponsFile' = o.couponsFile
    /\ eventsFile' = o.eventsFile
    /\ appended' = IF o.eventsFile # eventsFile THEN appended + 1 ELSE appended
    /\ UNCHANGED <<engineKeypair, connection, secretKeyOk, calls, chain, faults>>

Create(wallet, label, amount_sol, expiry, id) ==
    Handle(CreateHandler(wallet, label, amount_sol, expiry, id))

Deposit(id, wallet, amount_sol, tx_sig) ==
    Handle(DepositHandler(id, wallet, amount_sol, tx_sig))

Pay(wallet, coupon_id, amount_sol, merchant, note) ==
    Handle(PayHandler(wallet, coupon_id, amount_sol, merchant, note))

ListCoupons(wallet) == Handle(ListHandler(wallet))

History(id, wallet) == Handle(HistoryHandler(id, wallet))

-----------------------------------------------------------------------------
(* POST /coupons/:id/withdraw-onchain: the async handler.  Each of its     *)
(* three parts is a function of the state: what it leaves and the response *)
(* it sends (NoResponse while the call waits on the network).              *)

SigOf(n) == "SIG" \o ToString(n)

NoResponse == Response(0, NULL, NoBody)

\* A catch block that forgets status(500): express answers 200.
WithdrawFailedNoStatus(details) ==
    Response(200, "on-chain withdraw failed", [details |-> details])

\* The 500 response of the catch block.
WithdrawFailed(details) ==
    Response(500, "on-chain withdraw failed", [details |-> details])

\* Up to the first await: the validation, the balance read, the keypair, the
\* connection, the transaction, and the call of sendTransaction.
WithdrawBeginHandler(id, wallet, amount_sol, recipient) ==
    LET ownerWallet == wallet
        toAddress == recipient
        amount == parseAmountSol(amount_sol)
        coupon == getCouponById(couponsFile, id, ownerWallet)
        currentRemaining == NumberOrZero(coupon.c.remaining_amount_sol)
        Reject(status, error) ==
            [engineKeypair |-> engineKeypair, connection |-> connection,
             call |-> IdleCall, res |-> Response(status, error, NoBody)]
    IN IF ownerWallet = "" THEN Reject(400, "wallet is required")
       ELSE IF toAddress = "" THEN Reject(400, "recipient is required")
       ELSE IF amount = NoAmount
       THEN Reject(400, "amount_sol must be a positive number")
       ELSE IF ~coupon.found
       THEN Reject(404, "coupon not found for this wallet")
       ELSE IF Insufficient(amount, currentRemaining)
       THEN Reject(400, "insufficient coupon balance")
       ELSE IF engineKeypair = NULL /\ ~secretKeyOk
       THEN \* getEngineKeypair throws
            [engineKeypair |-> engineKeypair, connection |-> connection,
             call |-> IdleCall, res |-> WithdrawFailed("ENGINE_SECRET_KEY")]
       ELSE IF ~ValidPublicKey(toAddress)
       THEN \* new PublicKey throws
            [engineKeypair |-> "keypair", connection |-> "connection",
             call |-> IdleCall, res |-> WithdrawFailed("Invalid public key input")]
       ELSE [engineKeypair |-> "keypair", connection |-> "connection",
             call |-> [pc |-> "sending", id |-> id, owner |-> ownerWallet,
                       to |-> toAddress, amount |-> amount,
                       currentRemaining |-> currentRemaining, sig |-> NULL],
             res |-> NoResponse]

WithdrawBegin(p, id, wallet, amount_sol, recipient) ==
    LET o == WithdrawBeginHandler(id, wallet, amount_sol, recipient)
    IN /\ calls[p].pc = "idle"
       /\ o.call.pc = "sending" =>
             /\ EventRoom
             /\ Len(chain) + Cardinality(Sending) < MaxTransfers
       /\ engineKeypair' = o.engineKeypair
       /\ connection' = o.connection
       /\ calls' = [calls EXCEPT ![p] = o.call]
       /\ UNCHANGED <<couponsFile, eventsFile, secretKeyOk, chain, appended,
                      faults>>

\* sendTransaction resolves: the network has the transaction and names it.
\* The transaction moves Math.round(amount * LAMPORTS_PER_SOL) lamports, which
\* is the amount itself for the whole amounts of the model.
WithdrawSendOk(p) ==
    LET sig == SigOf(Len(chain) + 1)
    IN /\ calls[p].pc = "sending"
       /\ chain' = Append(chain,
              [sig |-> sig, id |-> calls[p].id, owner |-> calls[p].owner,
               to |-> calls[p].to,
               amount_sol |-> calls[p].amount,
               status |-> "sent"])
       /\ calls' = [calls EXCEPT ![p].pc = "confirming", ![p].sig = sig]
       /\ UNCHANGED <<couponsFile, eventsFile, engineKeypair, connection,
                      secretKeyOk, appended, faults>>

\* A catch block that only logs: the caller gets no answer.
WithdrawCatchSilent(details) ==
    Outcome(couponsFile, eventsFile, NoResponse)

\* The catch block after a rejected await.
WithdrawCatch(details) ==
    Outcome(couponsFile, eventsFile, WithdrawFailed(details))

\* sendTransaction rejects: nothing was sent.
WithdrawSendFail(p) ==
    LET o == WithdrawCatch("send failed")
    IN /\ calls[p].pc = "sending"
       /\ couponsFile' = o.couponsFile
       /\ eventsFile' = o.eventsFile
       /\ calls' = [calls EXCEPT ![p] = IdleCall]
       /\ UNCHANGED <<engineKeypair, connection, secretKeyOk, chain, appended,
                      faults>>

SetStatus(sig, status) ==
    [i \in 1..Len(chain) |->
        IF chain[i].sig = sig THEN [chain[i] EXCEPT !.status = status]
        ELSE chain[i]]

\* The rest of the try block, after confirmTransaction resolves.
WithdrawAfterConfirm(call) ==
    LET id == call.id
        ownerWallet == call.owner
        amount == call.amount
        currentRemaining == call.currentRemaining
        sig == call.sig
        updated == updateCoupon(couponsFile, id, ownerWallet,
                       [c \in StoredCoupons(couponsFile) |->
                           DebitMutator(c, currentRemaining, amount)])
        event == MakeEvent(id, ownerWallet, "withdraw", amount, call.to,
                           NULL, sig)
    IN Outcome(updated.file, addEvent(eventsFile, event),
               Response(200, NULL,
                        [coupon |-> updated.ret, event |-> event,
                         tx_sig |-> sig]))

\* confirmTransaction resolves.
WithdrawConfirmOk(p) ==
    LET o == WithdrawAfterConfirm(calls[p])
    IN /\ calls[p].pc = "confirming"
       /\ chain' = SetStatus(calls[p].sig, "confirmed")
       /\ couponsFile' = o.couponsFile
       /\ eventsFile' = o.eventsFile
       /\ appended' = appended + 1
       /\ calls' = [calls EXCEPT ![p] = IdleCall]
       /\ UNCHANGED <<engineKeypair, connection, secretKeyOk, faults>>

\* confirmTransaction rejects: the transfer failed or was not confirmed in time.
WithdrawConfirmFail(p) ==
    LET o == WithdrawCatch("not confirmed")
    IN /\ calls[p].pc = "confirming"
       /\ chain' = SetStatus(calls[p].sig, "failed")
       /\ couponsFile' = o.couponsFile
       /\ eventsFile' = o.eventsFile
       /\ calls' = [calls EXCEPT ![p] = IdleCall]
       /\ UNCHANGED <<engineKeypair, connection, secretKeyOk, appended, faults>>

-----------------------------------------------------------------------------
(* The requests the clients send: every well-formed request over the small
   domains, and one request for each field a handler rejects as missing. *)

Amounts == 1..MaxAmount

CreateRequests ==
    [wallet : Owners, label : {"Lunch"}, amount_sol : Amounts,
     expiry : {UNDEFINED}]
    \cup {[wallet |-> "", label |-> "Lunch", amount_sol |-> 1, expiry |-> UNDEFINED],
          [wallet |-> "W1", label |-> "", amount_sol |-> 1, expiry |-> UNDEFINED],
          [wallet |-> "W1", label |-> "Lunch", amount_sol |-> 0, expiry |-> UNDEFINED]}

DepositRequests ==
    [id : Ids, wallet : Owners, amount_sol : Amounts,
     tx_sig : {UNDEFINED, "", "DEPSIG"}]
    \cup {[id |-> CouponIdOf(1), wallet |-> "", amount_sol |-> 1, tx_sig |-> UNDEFINED],
          [id |-> CouponIdOf(1), wallet |-> "W1", amount_sol |-> 0, tx_sig |-> UNDEFINED]}

PayRequests ==
    [wallet : Owners, coupon_id : Ids, amount_sol : Amounts, merchant : {"M1"},
     note : {UNDEFINED}]
    \cup {[wallet |-> "", coupon_id |-> CouponIdOf(1), amount_sol |-> 1,
           merchant |-> "M1", note |-> UNDEFINED],
          [wallet |-> "W1", coupon_id |-> "", amount_sol |-> 1,
           merchant |-> "M1", note |-> UNDEFINED],
          [wallet |-> "W1", coupon_id |-> CouponIdOf(1), amount_sol |-> 1,
           merchant |-> "", note |-> UNDEFINED],
          [wallet |-> "W1", coupon_id |-> CouponIdOf(1), amount_sol |-> 0,
           merchant |-> "M1", note |-> UNDEFINED]}

WithdrawRequests ==
    [id : Ids, wallet : Owners, amount_sol : Amounts,
     recipient : {"R1", "notbase58"}]
    \cup {[id |-> CouponIdOf(1), wallet |-> "", amount_sol |-> 1, recipient |-> "R1"],
          [id |-> CouponIdOf(1), wallet |-> "W1", amount_sol |-> 1, recipient |-> ""],
          [id |-> CouponIdOf(1), wallet |-> "W1", amount_sol |-> 0, recipient |-> "R1"]}

ReadRequests == [id : Ids, wallet : Owners \cup {""}]

\* A new request is the async call of the lowest free number.
FreeSlot(p) == calls[p].pc = "idle" /\ \A q \in Slots : q < p => calls[q].pc # "idle"

Next ==
    \/ \E r \in CreateRequests, id \in Ids :
          Create(r.wallet, r.label, r.amount_sol, r.expiry, id)
    \/ \E r \in DepositRequests : Deposit(r.id, r.wallet, r.amount_sol, r.tx_sig)
    \/ \E r \in PayRequests :
          Pay(r.wallet, r.coupon_id, r.amount_sol, r.merchant, r.note)
    \/ \E w \in Owners \cup {""} : ListCoupons(w)
    \/ \E r \in ReadRequests : History(r.id, r.wallet)
    \/ \E p \in Slots, r \in WithdrawRequests :
          FreeSlot(p) /\ WithdrawBegin(p, r.id, r.wallet, r.amount_sol, r.recipient)
    \/ \E p \in Slots : WithdrawSendOk(p)
    \/ \E p \in Slots : WithdrawSendFail(p)
    \/ \E p \in Slots : WithdrawConfirmOk(p)
    \/ \E p \in Slots : WithdrawConfirmFail(p)

Spec == Init /\ [][Next]_vars

\* The network settles what it is asked: each sendTransaction and each
\* confirmTransaction a call waits on resolves or rejects, and the handler
\* then runs on.
LiveSpec ==
    /\ Spec
    /\ \A p \in Slots :
          /\ WF_vars(WithdrawSendOk(p) \/ WithdrawSendFail(p))
          /\ WF_vars(WithdrawConfirmOk(p) \/ WithdrawConfirmFail(p))

-----------------------------------------------------------------------------
(* The store when reads can fail.  safeReadJSON meets a file that is not   *)
(* there, that cannot be read or parsed, or that holds something else than *)
(* the collection.  A file that cannot be read still holds what was last   *)
(* written to it (items); the other faults leave nothing of it.            *)

FaultKinds == {"missing", "unreadable", "notobject", "noarray"}

Faulted(file, kind) ==
    [kind |-> kind, items |-> IF kind = "unreadable" THEN file.items ELSE <<>>]

\* data/coupons.json stops being a readable collection.
CouponsFault(kind) ==
    /\ faults < MaxFaults
    /\ faults' = faults + 1
    /\ couponsFile' = Faulted(couponsFile, kind)
    /\ UNCHANGED <<eventsFile, engineKeypair, connection, secretKeyOk, calls,
                   chain, appended>>

\* data/events.json stops being a readable collection.
EventsFault(kind) ==
    /\ faults < MaxFaults
    /\ faults' = faults + 1
    /\ eventsFile' = Faulted(eventsFile, kind)
    /\ UNCHANGED <<couponsFile, engineKeypair, connection, secretKeyOk, calls,
                   chain, appended>>

\* The handlers that do not wait on the network, over a store whose reads
\* can fail.
FaultNext ==
    \/ \E r \in CreateRequests, id \in Ids :
          Create(r.wallet, r.label, r.amount_sol, r.expiry, id)
    \/ \E r \in DepositRequests : Deposit(r.id, r.wallet, r.amount_sol, r.tx_sig)
    \/ \E r \in PayRequests :
          Pay(r.wallet, r.coupon_id, r.amount_sol, r.merchant, r.note)
    \/ \E w \in Owners \cup {""} : ListCoupons(w)
    \/ \E r \in ReadRequests : History(r.id, r.wallet)
    \/ \E kind \in FaultKinds : CouponsFault(kind)
    \/ \E kind \in FaultKinds : EventsFault(kind)

FaultSpec == Init /\ [][FaultNext]_vars

-----------------------------------------------------------------------------
(* What the claims speak of *)

Coupons == loadCoupons(couponsFile)
Events == loadEvents(eventsFile)

RECURSIVE SumAmounts(_)
SumAmounts(seq) ==
    IF seq = <<>> THEN 0 ELSE Head(seq).amount_sol + SumAmounts(Tail(seq))

\* The total amount_sol of the events of one type of the coupon (id, owner).
EventSum(id, owner, type) ==
    SumAmounts(SelectSeq(Events,
        LAMBDA e : e.coupon_id = id /\ e.owner_wallet = owner /\ e.type = type))

\* The total the network has confirmed as moved out for the coupon (id, owner).
ConfirmedOut(id, owner) ==
    SumAmounts(SelectSeq(chain,
        LAMBDA t : t.id = id /\ t.owner = owner /\ t.status = "confirmed"))

\* No two stored coupons have the same id and owner (generateCouponId has not
\* repeated an id for one owner).
KeysUnique ==
    \A i, j \in 1..Len(Coupons) :
        (Coupons[i].id = Coupons[j].id
           /\ Coupons[i].owner_wallet = Coupons[j].owner_wallet) => i = j

-----------------------------------------------------------------------------
\* C1: in every reachable state (no handler stops between its coupon write and
\* its event write: each does both in one step), every coupon's remaining is
\* initial + deposits - withdraws - pays of its events.  Stated for the states
\* in which no id has repeated, so that what refutes it is the interleaving.
C1_BalanceMatchesEvents ==
    KeysUnique =>
        \A i \in 1..Len(Coupons) :
            LET c == Coupons[i]
            IN c.remaining_amount_sol =
                  c.initial_amount_sol
                  + EventSum(c.id, c.owner_wallet, "deposit")
                  - EventSum(c.id, c.owner_wallet, "withdraw")
                  - EventSum(c.id, c.owner_wallet, "pay")

\* C2: for every coupon, the confirmed transfers made for it plus its pay
\* events never exceed its initial amount plus its deposit events.  Stated for
\* the states in which no id has repeated.
C2_NoDoubleSpend ==
    KeysUnique =>
        \A i \in 1..Len(Coupons) :
            LET c == Coupons[i]
            IN ConfirmedOut(c.id, c.owner_wallet)
                  + EventSum(c.id, c.owner_wallet, "pay")
               <= c.initial_amount_sol
                  + EventSum(c.id, c.owner_wallet, "deposit")

\* C3: remaining_amount_sol of every coupon is >= 0 in every reachable state.
C3_RemainingNonNegative ==
    \A i \in 1..Len(Coupons) : Coupons[i].remaining_amount_sol >= 0

\* C3's case: a coupon emptied by a withdraw that overlapped a pay on it (the
\* two together took more than the coupon ever held).
C3_Witness ==
    \E i \in 1..Len(Coupons) :
        LET c == Coupons[i]
        IN /\ c.remaining_amount_sol = 0
           /\ EventSum(c.id, c.owner_wallet, "withdraw")
                 + EventSum(c.id, c.owner_wallet, "pay")
              > c.initial_amount_sol + EventSum(c.id, c.owner_wallet, "deposit")

-----------------------------------------------------------------------------
\* The events of the file are those stored now and one more.
AppendsOne(file) ==
    /\ Len(loadEvents(file)) = Len(Events) + 1
    /\ SubSeq(loadEvents(file), 1, Len(Events)) = Events

LastEvent(file) == loadEvents(file)[Len(loadEvents(file))]

\* remaining_amount_sol of the coupon a handler finds for (id, owner).
RemainingOf(file, id, owner) ==
    getCouponById(file, id, owner).c.remaining_amount_sol

FilesUntouched(o) == o.couponsFile = couponsFile /\ o.eventsFile = eventsFile

-----------------------------------------------------------------------------
WellFormedPay(r) ==
    r.wallet # "" /\ r.coupon_id # "" /\ r.merchant # "" /\ r.amount_sol > 0

WellFormedWithdraw(r) ==
    r.wallet # "" /\ r.recipient # "" /\ r.amount_sol > 0

InsufficientBalance == Response(400, "insufficient coupon balance", NoBody)

\* C5: a Pay whose amount exceeds the coupon's remaining is answered
\* "insufficient coupon balance" and leaves both files as they are; so is a
\* WithdrawOnchain, which also starts no call (nothing is sent to the network)
\* and creates neither keypair nor connection.
C5_InsufficientBalanceRejected ==
    /\ \A r \in PayRequests :
          LET c == getCouponById(couponsFile, r.coupon_id, r.wallet)
              o == PayHandler(r.wallet, r.coupon_id, r.amount_sol, r.merchant, r.note)
          IN (WellFormedPay(r) /\ c.found
                /\ r.amount_sol > c.c.remaining_amount_sol) =>
                 FilesUntouched(o) /\ o.res = InsufficientBalance
    /\ \A r \in WithdrawRequests :
          LET c == getCouponById(couponsFile, r.id, r.wallet)
              o == WithdrawBeginHandler(r.id, r.wallet, r.amount_sol, r.recipient)
          IN (WellFormedWithdraw(r) /\ c.found
                /\ r.amount_sol > c.c.remaining_amount_sol) =>
                 /\ o.res = InsufficientBalance
                 /\ o.call = IdleCall
                 /\ o.engineKeypair = engineKeypair
                 /\ o.connection = connection

\* C5's case: a coupon that holds less than a Pay and a WithdrawOnchain ask.
C5_Witness ==
    /\ \E r \in PayRequests :
          PayHandler(r.wallet, r.coupon_id, r.amount_sol, r.merchant, r.note).res
             = InsufficientBalance
    /\ \E r \in WithdrawRequests :
          WithdrawBeginHandler(r.id, r.wallet, r.amount_sol, r.recipient).res
             = InsufficientBalance
    /\ Len(Events) > 1

-----------------------------------------------------------------------------
\* A step that appends one event of the type.
Appends(type) ==
    AppendsOne(eventsFile') /\ LastEvent(eventsFile').type = type

\* C6: a WithdrawOnchain on an existing coupon with 0 < amount <= remaining
\* whose transfer is confirmed with signature S: the call that waits took the
\* recipient and the amount of the request; what runs after the confirmation
\* appends exactly one event, a withdraw with that amount, recipient and S,
\* answers 200 with S, and, when the coupon's remaining is still what the call
\* read (no other operation changed it meanwhile), leaves it at that less the
\* amount; and the step that appends a withdraw event is the one in which the
\* network confirms the transfer of that signature, recipient and amount.
C6_ConfirmedWithdrawDebits ==
    /\ [](\A r \in WithdrawRequests :
            LET o == WithdrawBeginHandler(r.id, r.wallet, r.amount_sol,
                                          r.recipient)
            IN o.call.pc = "sending" =>
                  /\ o.call.id = r.id /\ o.call.owner = r.wallet
                  /\ o.call.to = r.recipient /\ o.call.amount = r.amount_sol
                  /\ o.call.currentRemaining
                        = RemainingOf(couponsFile, r.id, r.wallet)
                  /\ 0 < r.amount_sol
                  /\ r.amount_sol <= RemainingOf(couponsFile, r.id, r.wallet))
    /\ [](\A p \in Slots :
            calls[p].pc = "confirming" =>
                LET call == calls[p]
                    o == WithdrawAfterConfirm(call)
                    before == RemainingOf(couponsFile, call.id, call.owner)
                    e == LastEvent(o.eventsFile)
                IN /\ AppendsOne(o.eventsFile)
                   /\ e.type = "withdraw" /\ e.amount_sol = call.amount
                   /\ e.tx_sig = call.sig /\ e.to_address = call.to
                   /\ e.coupon_id = call.id /\ e.owner_wallet = call.owner
                   /\ o.res.status = 200 /\ o.res.body.tx_sig = call.sig
                   /\ o.res.body.event = e
                   /\ before = call.currentRemaining =>
                         /\ RemainingOf(o.couponsFile, call.id, call.owner)
                               = before - call.amount
                         /\ o.res.body.coupon.c.remaining_amount_sol
                               = before - call.amount)
    /\ [][Appends("withdraw") =>
            LET e == LastEvent(eventsFile')
            IN \E k \in 1..Len(chain) :
                  /\ chain[k].sig = e.tx_sig
                  /\ chain[k].status = "sent" /\ chain'[k].status = "confirmed"
                  /\ chain[k].to = e.to_address
                  /\ chain[k].amount_sol = e.amount_sol]_vars

\* C6's case: a confirmed withdraw, alone on its coupon, has been recorded.
C6_Witness ==
    /\ Len(Events) = 2
    /\ Events[2].type = "withdraw" /\ Events[2].tx_sig = SigOf(1)
    /\ Events[2].to_address = "R1" /\ Events[2].amount_sol = 1
    /\ Len(Coupons) = 1
    /\ Coupons[1].initial_amount_sol = 2 /\ Coupons[1].remaining_amount_sol = 1

\* C7: a Pay on an existing coupon with 0 < amount <= remaining takes exactly
\* the amount off its remaining, appends exactly one event, a pay with that
\* amount, the merchant as to_address and no tx_sig, and answers 200; and the
\* step that appends a pay event touches neither the calls in flight nor the
\* network.
C7_PayDebits ==
    /\ [](\A r \in PayRequests :
            LET c == getCouponById(couponsFile, r.coupon_id, r.wallet)
                o == PayHandler(r.wallet, r.coupon_id, r.amount_sol, r.merchant,
                                r.note)
                e == LastEvent(o.eventsFile)
            IN (WellFormedPay(r) /\ c.found
                  /\ r.amount_sol <= c.c.remaining_amount_sol) =>
                   /\ RemainingOf(o.couponsFile, r.coupon_id, r.wallet)
                         = c.c.remaining_amount_sol - r.amount_sol
                   /\ AppendsOne(o.eventsFile)
                   /\ e.type = "pay" /\ e.amount_sol = r.amount_sol
                   /\ e.to_address = r.merchant /\ e.tx_sig = NULL
                   /\ e.coupon_id = r.coupon_id /\ e.owner_wallet = r.wallet
                   /\ o.res.status = 200)
    /\ [][Appends("pay") =>
            UNCHANGED <<calls, chain, engineKeypair, connection>>]_vars

\* C7's case: a pay of part of a coupon's balance has been recorded.
C7_Witness ==
    /\ Len(Events) = 2
    /\ Events[2].type = "pay" /\ Events[2].to_address = "M1"
    /\ Events[2].amount_sol = 1
    /\ Len(Coupons) = 1
    /\ Coupons[1].initial_amount_sol = 2 /\ Coupons[1].remaining_amount_sol = 1

WellFormedCreate(r) == r.wallet # "" /\ r.label # "" /\ r.amount_sol > 0

\* C8: a Create with owner, label and positive amount adds exactly one coupon
\* (initial = remaining = amount, owner_wallet = owner) and exactly one event
\* (a create with the amount, to_address = owner, no tx_sig) and answers 201;
\* and right after the step that adds a coupon, that coupon's event sequence
\* has length 1.
C8_CreateAddsCouponAndEvent ==
    /\ [](\A r \in CreateRequests, id \in Ids :
            LET o == CreateHandler(r.wallet, r.label, r.amount_sol, r.expiry, id)
                c == loadCoupons(o.couponsFile)[Len(Coupons) + 1]
                e == LastEvent(o.eventsFile)
            IN WellFormedCreate(r) =>
                  /\ Len(loadCoupons(o.couponsFile)) = Len(Coupons) + 1
                  /\ SubSeq(loadCoupons(o.couponsFile), 1, Len(Coupons)) = Coupons
                  /\ c.id = id /\ c.owner_wallet = r.wallet
                  /\ c.initial_amount_sol = r.amount_sol
                  /\ c.remaining_amount_sol = r.amount_sol
                  /\ AppendsOne(o.eventsFile)
                  /\ e.type = "create" /\ e.amount_sol = r.amount_sol
                  /\ e.to_address = r.wallet /\ e.tx_sig = NULL
                  /\ e.coupon_id = id /\ e.owner_wallet = r.wallet
                  /\ o.res.status = 201)
    /\ [][Len(loadCoupons(couponsFile')) = Len(Coupons) + 1 =>
            LET c == loadCoupons(couponsFile')[Len(Coupons) + 1]
            IN Len(getEventsForCoupon(eventsFile', c.id, c.owner_wallet)) = 1]_vars

WellFormedDeposit(r) == r.wallet # "" /\ r.amount_sol > 0

\* What a Deposit on an existing coupon with positive amount does to the
\* files, with sig the tx_sig its event is to carry.
DepositEffect(r, sig) ==
    LET c == getCouponById(couponsFile, r.id, r.wallet)
        o == DepositHandler(r.id, r.wallet, r.amount_sol, r.tx_sig)
        e == LastEvent(o.eventsFile)
    IN (WellFormedDeposit(r) /\ c.found) =>
           /\ RemainingOf(o.couponsFile, r.id, r.wallet)
                 = c.c.remaining_amount_sol + r.amount_sol
           /\ AppendsOne(o.eventsFile)
           /\ e.type = "deposit" /\ e.amount_sol = r.amount_sol
           /\ e.to_address = r.wallet
           /\ e.coupon_id = r.id /\ e.owner_wallet = r.wallet
           /\ e.tx_sig = sig
           /\ o.res.status = 200

\* C9 as stated: a Deposit on an existing coupon with positive amount adds
\* exactly the amount to its remaining and appends exactly one event, a
\* deposit with the amount, to_address = owner and the tx_sig supplied (null
\* when none is supplied); and the step that appends a deposit event touches
\* neither the calls in flight nor the network.
C9_DepositPassesTxSigThrough ==
    /\ [](\A r \in DepositRequests :
            DepositEffect(r, IF r.tx_sig = UNDEFINED THEN NULL ELSE r.tx_sig))
    /\ [][Appends("deposit") =>
            UNCHANGED <<calls, chain, engineKeypair, connection>>]_vars

\* C9 as amended: the same, with the tx_sig supplied when it is a non-empty
\* string, and null when none or the empty string is supplied.
C9_DepositCredits ==
    /\ [](\A r \in DepositRequests :
            DepositEffect(r, IF r.tx_sig \in {UNDEFINED, ""} THEN NULL
                             ELSE r.tx_sig))
    /\ [][Appends("deposit") =>
            UNCHANGED <<calls, chain, engineKeypair, connection>>]_vars

\* C9's case: a deposit that came with a tx_sig has been recorded.
C9_Witness ==
    /\ Len(Events) = 2
    /\ Events[2].type = "deposit" /\ Events[2].tx_sig = "DEPSIG"
    /\ Events[2].amount_sol = 2
    /\ Len(Coupons) = 1
    /\ Coupons[1].initial_amount_sol = 1 /\ Coupons[1].remaining_amount_sol = 3

-----------------------------------------------------------------------------
\* C10: for every owner W, the list of W's coupons holds only coupons of W,
\* each with only events of W; History(id, W) answers with a coupon of W and
\* events of W or not at all; and for an id that is stored, but not for W, it
\* answers 404 with neither a coupon nor an event.
C10_OwnerIsolation ==
    /\ \A w \in Owners :
          LET list == ListHandler(w).res.body.coupons
          IN \A i \in 1..Len(list) :
                /\ list[i].coupon.owner_wallet = w
                /\ \A n \in 1..Len(list[i].events) :
                      /\ list[i].events[n].owner_wallet = w
                      /\ list[i].events[n].coupon_id = list[i].coupon.id
    /\ \A id \in Ids, w \in Owners :
          LET res == HistoryHandler(id, w).res
          IN /\ res.status = 200 =>
                   /\ res.body.coupon.owner_wallet = w
                   /\ res.body.coupon.id = id
                   /\ \A n \in 1..Len(res.body.events) :
                         res.body.events[n].owner_wallet = w
             /\ (\A i \in 1..Len(Coupons) :
                     Coupons[i].id = id => Coupons[i].owner_wallet # w) =>
                   /\ res.status = 404
                   /\ res.body = NoBody

\* C10's case: a coupon with two events is stored for W1 under an id that W2
\* has no coupon under, while W2 has a coupon of its own.
C10_Witness ==
    /\ \E i \in 1..Len(Coupons) :
          /\ Coupons[i].owner_wallet = "W1"
          /\ Len(getEventsForCoupon(eventsFile, Coupons[i].id, "W1")) = 2
          /\ HistoryHandler(Coupons[i].id, "W2").res.status = 404
    /\ Len(ListHandler("W2").res.body.coupons) = 1

-----------------------------------------------------------------------------
\* No stored coupon has the id together with the owner.
NoCouponFor(id, owner) ==
    \A i \in 1..Len(Coupons) :
        ~(Coupons[i].id = id /\ Coupons[i].owner_wallet = owner)

NotFound == Response(404, "coupon not found for this wallet", NoBody)

\* C11: a Deposit, a Pay or a WithdrawOnchain with its fields present and a
\* positive amount, for a (coupon id, owner) that no stored coupon has (the id
\* is unknown, or it is stored for another owner), is answered 404 "coupon not
\* found for this wallet" and leaves both files as they are; the
\* WithdrawOnchain also starts no call (nothing is sent to the network) and
\* creates neither keypair nor connection.
C11_NotFoundChangesNothing ==
    /\ \A r \in DepositRequests :
          LET o == DepositHandler(r.id, r.wallet, r.amount_sol, r.tx_sig)
          IN (WellFormedDeposit(r) /\ NoCouponFor(r.id, r.wallet)) =>
                 o.res = NotFound /\ FilesUntouched(o)
    /\ \A r \in PayRequests :
          LET o == PayHandler(r.wallet, r.coupon_id, r.amount_sol, r.merchant,
                              r.note)
          IN (WellFormedPay(r) /\ NoCouponFor(r.coupon_id, r.wallet)) =>
                 o.res = NotFound /\ FilesUntouched(o)
    /\ \A r \in WithdrawRequests :
          LET o == WithdrawBeginHandler(r.id, r.wallet, r.amount_sol, r.recipient)
          IN (WellFormedWithdraw(r) /\ NoCouponFor(r.id, r.wallet)) =>
                 /\ o.res = NotFound
                 /\ o.call = IdleCall
                 /\ o.engineKeypair = engineKeypair
                 /\ o.connection = connection

\* C11's case: one id is stored for W1 and not for W2, the other id is not
\* stored at all, and the three operations are asked for both.
C11_Witness ==
    /\ ~NoCouponFor(CouponIdOf(1), "W1") /\ NoCouponFor(CouponIdOf(1), "W2")
    /\ \A w \in Owners : NoCouponFor(CouponIdOf(2), w)
    /\ Len(Events) = 2
    /\ \A id \in Ids :
          /\ DepositHandler(id, "W2", 1, "DEPSIG").res = NotFound
          /\ PayHandler("W2", id, 1, "M1", UNDEFINED).res = NotFound
          /\ WithdrawBeginHandler(id, "W2", 1, "R1").res = NotFound

-----------------------------------------------------------------------------
IsPrefix(s, t) == Len(s) <= Len(t) /\ SubSeq(t, 1, Len(s)) = s

\* What a read of the file gives when the file holds the collection, and
\* nothing otherwise: stated from the kind of the file, not by loadEvents.
Readable(file) == IF file.kind = "ok" THEN file.items ELSE <<>>

\* An event a handler may hand to addEvent.
SomeEvent == MakeEvent(CouponIdOf(1), "W1", "withdraw", 1, "R1", NULL, SigOf(1))

\* C12 as stated: the event collection is append-only; in every step of a
\* handler the events data/events.json held before the step are a prefix of
\* those it holds after it, also when the file could not be read before the
\* step (a file that cannot be read still holds its events).
C12_EventsAppendOnly ==
    [][faults' = faults => IsPrefix(eventsFile.items, eventsFile'.items)]_vars

\* C12 as amended: the event collection is append-only as long as the reads
\* of data/events.json succeed.  addEvent stores the events its read gave
\* followed by the new event, and a step of a handler leaves the events file
\* alone or stores what a read of it gave followed by one event: after a read
\* that finds the file missing, unreadable or not a collection, the stored
\* sequence is the one new event and the events the file held are gone.
C12_EventsAppendOnlyWhileReadable ==
    /\ [](/\ addEvent(eventsFile, SomeEvent).kind = "ok"
          /\ addEvent(eventsFile, SomeEvent).items
                = Append(Readable(eventsFile), SomeEvent))
    /\ [][faults' = faults =>
            \/ eventsFile' = eventsFile
            \/ /\ eventsFile'.kind = "ok"
               /\ Len(eventsFile'.items) = Len(Readable(eventsFile)) + 1
               /\ IsPrefix(Readable(eventsFile), eventsFile'.items)]_vars

\* C12's case: two events were appended, the file could not be read in
\* between, and it now holds one event.
C12_Witness ==
    /\ appended = 2 /\ faults = 1
    /\ eventsFile.kind = "ok" /\ Len(eventsFile.items) = 1
    /\ couponsFile.kind = "ok" /\ Len(couponsFile.items) = 2

-----------------------------------------------------------------------------
\* The handler has entered its try block: it waits on sendTransaction, or it
\* has answered 500 because the engine key or the recipient did not load.
Attempted(o) == o.call.pc = "sending" \/ o.res.status = 500

Confirming == {p \in Slots : calls[p].pc = "confirming"}

\* C13: a WithdrawOnchain call makes its transfer attempt exactly when its
\* fields are present, the coupon is found and 0 < amount <= the remaining it
\* read, and the attempt reaches sendTransaction exactly when the engine key
\* and the recipient load as well; a call waits on sendTransaction only as a
\* new request, never again once it has been sent or has failed; a step puts
\* at most one transaction on the network, that of a call that was waiting on
\* sendTransaction and now waits on its confirmation; the step that ends a
\* call sends nothing; and every transaction on the network has its own
\* signature, the unsettled ones being those of the calls that wait.
C13_OneTransferAttempt ==
    /\ [](\A r \in WithdrawRequests :
            LET o == WithdrawBeginHandler(r.id, r.wallet, r.amount_sol,
                                          r.recipient)
                ok == /\ WellFormedWithdraw(r)
                      /\ ~NoCouponFor(r.id, r.wallet)
                      /\ r.amount_sol <= RemainingOf(couponsFile, r.id, r.wallet)
            IN /\ Attempted(o) <=> ok
               /\ o.call.pc = "sending" <=>
                     /\ ok
                     /\ engineKeypair # NULL \/ secretKeyOk
                     /\ ValidPublicKey(r.recipient))
    /\ [](/\ \A j, k \in 1..Len(chain) : chain[j].sig = chain[k].sig => j = k
          /\ \A p, q \in Confirming : calls[p].sig = calls[q].sig => p = q
          /\ {chain[k].sig : k \in {j \in 1..Len(chain) : chain[j].status = "sent"}}
                = {calls[p].sig : p \in Confirming})
    /\ [][/\ \A p \in Slots :
              /\ (calls'[p].pc = "sending" /\ calls'[p] # calls[p]) =>
                     calls[p].pc = "idle"
              /\ (calls[p].pc # "idle" /\ calls'[p].pc = "idle") =>
                     Len(chain') = Len(chain)
          /\ Len(chain') # Len(chain) =>
                /\ Len(chain') = Len(chain) + 1
                /\ SubSeq(chain', 1, Len(chain)) = chain
                /\ \E p \in Slots :
                      /\ calls[p].pc = "sending" /\ calls'[p].pc = "confirming"
                      /\ calls'[p].sig = chain'[Len(chain')].sig
                      /\ calls[p].to = chain'[Len(chain')].to
                      /\ calls[p].amount = chain'[Len(chain')].amount_sol
                      /\ \A q \in Slots \ {p} : calls'[q] = calls[q]]_vars

\* C13's case: a call's transfer failed and was not sent again; a later call
\* for the same coupon was confirmed.
C13_Witness ==
    /\ Len(chain) = 2
    /\ chain[1].status = "failed" /\ chain[2].status = "confirmed"
    /\ chain[1].id = chain[2].id /\ chain[1].owner = chain[2].owner
    /\ \A p \in Slots : calls[p].pc = "idle"
    /\ EventSum(chain[1].id, chain[1].owner, "withdraw") = chain[2].amount_sol

-----------------------------------------------------------------------------
\* C14: no two stored coupons have the same id.
C14_IdsUnique ==
    \A i, j \in 1..Len(Coupons) : Coupons[i].id = Coupons[j].id => i = j

-----------------------------------------------------------------------------
\* C15: History and ListForOwner leave both files as they are, whatever they
\* answer; and across a step that changes neither file (so that no operation
\* that changes the store has completed), every History call answers after
\* the step what it answers before it: the same status, coupon and events.
\* (A step that changes nothing at all needs no look: the answer is computed
\* from the state.)
C15_HistoryIsPureRead ==
    /\ [](\A r \in ReadRequests : FilesUntouched(HistoryHandler(r.id, r.wallet)))
    /\ [](\A w \in Owners \cup {""} : FilesUntouched(ListHandler(w)))
    /\ [][(UNCHANGED <<couponsFile, eventsFile>> /\ ~UNCHANGED vars) =>
            \A r \in ReadRequests :
                HistoryHandler(r.id, r.wallet)'.res
                   = HistoryHandler(r.id, r.wallet).res]_vars

\* C15's case: History answers with a coupon and two events of it while a
\* withdraw on that coupon waits for its confirmation.
C15_Witness ==
    \E p \in Slots :
        /\ calls[p].pc = "confirming"
        /\ LET res == HistoryHandler(calls[p].id, calls[p].owner).res
           IN /\ res.status = 200
              /\ Len(res.body.events) = 2
              /\ res.body.coupon.remaining_amount_sol = 2

-----------------------------------------------------------------------------
\* C16: no update of a coupon is lost to a withdraw that was waiting on its
\* transfer: for every WithdrawOnchain call that waits for its confirmation,
\* whatever has completed on its coupon since the call read the balance, the
\* write it makes once confirmed leaves remaining_amount_sol at its value
\* immediately before that write less the amount of the withdraw.
C16_WithdrawKeepsInterveningUpdates ==
    \A p \in Slots :
        calls[p].pc = "confirming" =>
            RemainingOf(WithdrawAfterConfirm(calls[p]).couponsFile,
                        calls[p].id, calls[p].owner)
               = RemainingOf(couponsFile, calls[p].id, calls[p].owner)
                    - calls[p].amount

-----------------------------------------------------------------------------
-----------------------------------------------------------------------------
\* The two records differ at most in remaining_amount_sol.
SameButRemaining(c, d) ==
    [d EXCEPT !.remaining_amount_sol = c.remaining_amount_sol] = c

\* The coupons after are the coupons stored now, in their places, except that
\* at most one of them, one with the id and the owner, has another
\* remaining_amount_sol.
OnlyRemainingOf(after, id, owner) ==
    /\ Len(after) = Len(Coupons)
    /\ \A i \in 1..Len(Coupons) :
          /\ SameButRemaining(Coupons[i], after[i])
          /\ after[i] # Coupons[i] =>
                Coupons[i].id = id /\ Coupons[i].owner_wallet = owner
    /\ \A i, j \in 1..Len(Coupons) :
          (after[i] # Coupons[i] /\ after[j] # Coupons[j]) => i = j

-----------------------------------------------------------------------------
\* The records a file holds, readable or not.
Held(file) == {file.items[i] : i \in 1..Len(file.items)}

\* C19: when data/coupons.json is missing, unreadable or not a collection,
\* loadCoupons gives the empty sequence, getCouponById gives no coupon for any
\* id and owner, getCouponsByOwner gives the empty sequence, and updateCoupon
\* returns null and leaves the file as it is, its mutator not applied to any
\* record the file holds; when data/events.json is so, loadEvents and
\* getEventsForCoupon give the empty sequence.
C19_ReadsFallBackToEmpty ==
    /\ couponsFile.kind # "ok" =>
          /\ loadCoupons(couponsFile) = <<>>
          /\ \A id \in Ids, w \in Owners \cup {""} :
                getCouponById(couponsFile, id, w) = Absent
          /\ \A w \in Owners : getCouponsByOwner(couponsFile, w) = <<>>
          /\ \A id \in Ids, w \in Owners :
                LET u == updateCoupon(couponsFile, id, w,
                             [c \in Held(couponsFile) |-> DepositMutator(c, 1)])
                IN u.ret = Absent /\ u.file = couponsFile
    /\ eventsFile.kind # "ok" =>
          /\ loadEvents(eventsFile) = <<>>
          /\ \A id \in Ids, w \in Owners :
                getEventsForCoupon(eventsFile, id, w) = <<>>

\* C19's case: the coupons file cannot be read while it holds two coupons,
\* and the events file, after two events were appended, is missing or holds
\* something that is not the collection.
C19_Witness ==
    /\ couponsFile.kind = "unreadable" /\ Len(couponsFile.items) = 2
    /\ eventsFile.kind \in {"missing", "notobject", "noarray"}
    /\ appended = 2

-----------------------------------------------------------------------------
\* The stages a call goes through in one step, and whether the step answers
\* the caller: a request refused or failed before it waits (answered), a
\* request that starts to wait, a transaction sent (both unanswered), and the
\* two ends of a wait (answered).
CallSteps ==
    {<<"idle", "idle">>, <<"idle", "sending">>, <<"sending", "sending">>,
     <<"sending", "confirming">>, <<"confirming", "confirming">>,
     <<"sending", "idle">>, <<"confirming", "idle">>}

\* C20: given that the network settles every sendTransaction and every
\* confirmTransaction, every WithdrawOnchain call that waits is in the end a
\* call that has finished; a request either is answered at once (400, 404 or
\* 500) and starts no call, or starts a call and is not answered yet; the
\* step that ends a waiting call answers it, 200 with the coupon, the event
\* and the signature after a confirmation and 500 after a failure; and a call
\* moves only forward (waiting to send, waiting to confirm, finished), so
\* that none is answered twice.
C20_WithdrawReportsOnce ==
    /\ \A p \in Slots : (calls[p].pc # "idle") ~> (calls[p].pc = "idle")
    /\ [](\A r \in WithdrawRequests :
            LET o == WithdrawBeginHandler(r.id, r.wallet, r.amount_sol,
                                          r.recipient)
            IN \/ o.call.pc = "sending" /\ o.res = NoResponse
               \/ o.call = IdleCall /\ o.res.status \in {400, 404, 500})
    /\ [](\A p \in Slots :
            /\ calls[p].pc = "confirming" =>
                  LET res == WithdrawAfterConfirm(calls[p]).res
                  IN /\ res.status = 200
                     /\ res.body.tx_sig = calls[p].sig
                     /\ res.body.coupon.found
                     /\ res.body.event.type = "withdraw"
            /\ calls[p].pc # "idle" =>
                  \A d \in {"send failed", "not confirmed"} :
                      WithdrawCatch(d).res.status = 500)
    /\ [][\A p \in Slots : <<calls[p].pc, calls'[p].pc>> \in CallSteps]_vars

\* C20's case: one call has finished with a confirmed transfer, one has
\* finished with a failed one, and nothing waits.
C20_Witness ==
    /\ Len(chain) = 2
    /\ chain[1].status = "confirmed" /\ chain[2].status = "failed"
    /\ \A p \in Slots : calls[p].pc = "idle"
    /\ Len(Events) = 2 /\ Events[2].tx_sig = chain[1].sig

====
